---- MODULE Spec2Model ----
(***************************************************************************)
(* Model of the shell in src/main.rs: the read loop of main, the           *)
(* dispatcher handle_input, the four registry handlers built by init and   *)
(* the search-path scan find_system_command_path.                          *)
(*                                                                         *)
(* A Rust string is a sequence of one-character strings, so that split,    *)
(* join, trim, strip_prefix and parse are computed as the library computes *)
(* them.                                                                   *)
(***************************************************************************)
EXTENDS Integers, Sequences, FiniteSets, TLC

(* ------------------------------ bounds -------------------------------- *)

\* most tokens in a line drawn from Vocabulary
MaxTokens == 3
\* most arguments in an echo line drawn from EchoWords
MaxEchoArgs == 3

(* ------------------------- string library ----------------------------- *)

\* i32::MAX; i32::MIN is -I32Max - 1
I32Max == 2147483647

Digits == <<"0", "1", "2", "3", "4", "5", "6", "7", "8", "9">>

IsDigit(c) == \E i \in 1..10 : Digits[i] = c

DigitVal(c) == (CHOOSE i \in 1..10 : Digits[i] = c) - 1

\* char::is_whitespace on the characters that occur here
IsWhite(c) == c \in {" ", "\n", "\t", "\r"}

RECURSIVE TrimStart(_)
TrimStart(s) ==
    IF s # <<>> /\ IsWhite(Head(s)) THEN TrimStart(Tail(s)) ELSE s

RECURSIVE TrimEnd(_)
TrimEnd(s) ==
    IF s # <<>> /\ IsWhite(s[Len(s)]) THEN TrimEnd(SubSeq(s, 1, Len(s) - 1)) ELSE s

\* str::trim: leading and trailing whitespace removed
Trim(s) == TrimEnd(TrimStart(s))

\* str::split(sep) for a one-character separator: always at least one piece,
\* adjacent separators give empty pieces
RECURSIVE Split(_, _)
Split(s, sep) ==
    IF \A i \in 1..Len(s) : s[i] # sep
    THEN <<s>>
    ELSE LET i == CHOOSE k \in 1..Len(s) : s[k] = sep /\ \A j \in 1..(k - 1) : s[j] # sep
         IN  <<SubSeq(s, 1, i - 1)>> \o Split(SubSeq(s, i + 1, Len(s)), sep)

\* [&str]::join(sep)
RECURSIVE Join(_, _)
Join(toks, sep) ==
    IF toks = <<>> THEN <<>>
    ELSE IF Len(toks) = 1 THEN toks[1]
    ELSE toks[1] \o sep \o Join(Tail(toks), sep)

\* str::strip_prefix
StripPrefix(s, p) ==
    IF Len(p) <= Len(s) /\ SubSeq(s, 1, Len(p)) = p
    THEN [some |-> TRUE, val |-> SubSeq(s, Len(p) + 1, Len(s))]
    ELSE [some |-> FALSE, val |-> <<>>]

\* the digit loop of from_str_radix: checked_mul(10) then checked_add(digit),
\* or checked_sub(digit) for a negative number; None on overflow
RECURSIVE Accumulate(_, _, _)
Accumulate(ds, acc, neg) ==
    IF ds = <<>> THEN [ok |-> TRUE, val |-> acc]
    ELSE LET d == DigitVal(Head(ds))
             fits == IF neg THEN acc >= ((-I32Max - 1) + d + 9) \div 10
                            ELSE acc <= (I32Max - d) \div 10
         IN  IF ~fits THEN [ok |-> FALSE, val |-> 0]
             ELSE Accumulate(Tail(ds), IF neg THEN 10 * acc - d ELSE 10 * acc + d, neg)

\* str::parse::<i32>: optional sign, at least one digit, digits only, and the
\* value must fit 32 bits
ParseI32(s) ==
    LET signed == s # <<>> /\ Head(s) \in {"+", "-"}
        ds     == IF signed THEN Tail(s) ELSE s
        neg    == signed /\ Head(s) = "-"
    IN  IF ds = <<>> \/ \E i \in 1..Len(ds) : ~IsDigit(ds[i])
        THEN [ok |-> FALSE, val |-> 0]
        ELSE Accumulate(ds, 0, neg)

(* ------------------------- inputs of the model ------------------------ *)

SeqsUpTo(S, lo, hi) == UNION {[1..k -> S] : k \in lo..hi}

\* tokens the general lines are made of: the builtin names, the sentinel, a
\* name that is no builtin, the empty token (two adjacent spaces), an integer
\* and a number one above i32::MAX
Vocabulary ==
    {<<"e", "x", "i", "t">>, <<"e", "c", "h", "o">>, <<"t", "y", "p", "e">>, <<"_", "_", "r", "_", "u", "_", "n", "_", "_">>, <<"f", "o", "o">>, <<>>, <<"7">>, <<"2", "1", "4", "7", "4", "8", "3", "6", "4", "8">>}

EchoWords == {<<"a">>, <<"b">>, <<>>}

\* what read_line can append to the buffer: a line with its newline, or
\* nothing at end of input
Lines ==
    {Join(toks, <<" ">>) \o <<"\n">> : toks \in SeqsUpTo(Vocabulary, 1, MaxTokens)}
    \cup {<<"e", "c", "h", "o", " ">> \o Join(args, <<" ">>) \o <<"\n">> : args \in SeqsUpTo(EchoWords, 1, MaxEchoArgs)}
    \cup {<<>>}

\* PATH: unset, or a colon-separated value; the empty component and /x are
\* directories read_dir cannot list
PathValues ==
    {[set |-> FALSE, value |-> <<>>]}
    \cup {[set |-> TRUE, value |-> v] :
            v \in {<<"/", "a">>, <<"/", "a", ":", "/", "b">>, <<"/", "b", ":", "/", "a">>, <<":", "/", "a">>, <<"/", "a", ":", "/", "x">>}}

File(name) == [utf8 |-> TRUE, name |-> name]
\* a directory entry whose name is not valid Unicode
BadName == [utf8 |-> FALSE, name |-> <<>>]

\* the listable directories, each with its entries in the order the
\* filesystem yields them
FileSystems ==
    {[d \in {<<"/", "a">>, <<"/", "b">>} |-> IF d = <<"/", "a">> THEN l[1] ELSE l[2]] :
            l \in { <<<<File(<<"f", "o", "o">>)>>, <<File(<<"f", "o", "o">>), File(<<"e", "c", "h", "o">>)>>>>,
                    <<<<>>, <<File(<<"f", "o", "o">>)>>>>,
                    <<<<BadName, File(<<"f", "o", "o">>)>>, <<File(<<"_", "_", "r", "_", "u", "_", "n", "_", "_">>)>>>>,
                    <<<<File(<<"f", "o", "o">>), BadName>>, <<>>>> }}

Text(s) == [utf8 |-> TRUE, text |-> s]
NotText == [utf8 |-> FALSE, text |-> <<>>]

\* what process::Command::output can give for a spawned program: it could not
\* be started, or it ran and left an exit status and two captured streams
Children ==
    {[started |-> FALSE, success |-> FALSE, stdout |-> Text(<<>>), stderr |-> Text(<<>>)],
     [started |-> TRUE, success |-> TRUE, stdout |-> Text(<<"o", "k", "\n">>), stderr |-> Text(<<>>)],
     [started |-> TRUE, success |-> TRUE, stdout |-> NotText, stderr |-> Text(<<>>)],
     [started |-> TRUE, success |-> FALSE, stdout |-> Text(<<>>), stderr |-> Text(<<"b", "a", "d", "\n">>)],
     [started |-> TRUE, success |-> FALSE, stdout |-> Text(<<"o", "k", "\n">>), stderr |-> NotText]}

(* ------------------------------ results ------------------------------- *)

\* enum Command, plus the Err side of Result and a panic
Exit(code) == [kind |-> "Exit", code |-> code, body |-> <<>>]
Echo(s) == [kind |-> "Echo", code |-> 0, body |-> s]
Type(s) == [kind |-> "Type", code |-> 0, body |-> s]
Run(s) == [kind |-> "Run", code |-> 0, body |-> s]
Err(desc) == [kind |-> "Err", code |-> 0, body |-> desc]
Panic == [kind |-> "Panic", code |-> 0, body |-> <<>>]

RUN_INTERNAL == <<"_", "_", "r", "_", "u", "_", "n", "_", "_">>

(* ------------------------------ locator ------------------------------- *)

\* Path::join of a directory and a file name
JoinPath(directory, filename) ==
    IF directory # <<>> /\ directory[Len(directory)] = "/"
    THEN directory \o filename
    ELSE directory \o <<"/">> \o filename

\* the inner loop over one directory's entries
RECURSIVE ScanEntries(_, _, _)
ScanEntries(directory, dir_entries, command_name) ==
    IF dir_entries = <<>> THEN [tag |-> "NoMatch", path |-> <<>>]
    ELSE LET full_path == Head(dir_entries)
         IN  IF ~full_path.utf8 THEN [tag |-> "Panic", path |-> <<>>]
             ELSE IF full_path.name = command_name
                  THEN [tag |-> "Some", path |-> JoinPath(directory, full_path.name)]
                  ELSE ScanEntries(directory, Tail(dir_entries), command_name)

\* the outer loop over the directories of PATH
RECURSIVE ScanDirectories(_, _, _)
ScanDirectories(directories, command_name, files) ==
    IF directories = <<>> THEN [tag |-> "None", path |-> <<>>]
    ELSE LET directory == Head(directories)
         IN  IF directory \notin DOMAIN files THEN [tag |-> "Panic", path |-> <<>>]
             ELSE LET r == ScanEntries(directory, files[directory], command_name)
                  IN  IF r.tag = "NoMatch"
                      THEN ScanDirectories(Tail(directories), command_name, files)
                      ELSE r

\* Ok(Some(path)), Ok(None), Err(..) or a panic, with the name looked for
find_system_command_path(command_name, path, files) ==
    LET r == IF path.set
             THEN ScanDirectories(Split(path.value, ":"), command_name, files)
             ELSE [tag |-> "Err", path |-> <<>>]
    IN  [name |-> command_name, tag |-> r.tag, path |-> r.path]

(* ------------------------------ registry ------------------------------ *)

\* the names init pushes, in order
init == <<<<"e", "x", "i", "t">>, <<"e", "c", "h", "o">>, <<"t", "y", "p", "e">>, RUN_INTERNAL>>

\* CommandEnv::names
names(command_env) == {command_env[i] : i \in 1..Len(command_env)}

\* what a handler returns, with what it did on the way: the call of
\* find_system_command_path it made and the program it spawned, if any
Looked(found) == <<found>>

Ret(res, located, spawned) == [res |-> res, located |-> located, spawned |-> spawned]

exit_handler(command_tokens) ==
    IF Len(command_tokens) = 2
    THEN LET p == ParseI32(Trim(command_tokens[2]))
         IN  IF p.ok THEN Ret(Exit(p.val), <<>>, <<>>)
             ELSE Ret(Err(<<"i", "n", "v", "a", "l", "i", "d", " ", "e", "r", "r", "o", "r", " ", "c", "o", "d", "e">>), <<>>, <<>>)
    ELSE Ret(Err(<<"i", "n", "v", "a", "l", "i", "d", " ", "e", "x", "i", "t", " ", "c", "o", "m", "m", "a", "n", "d", ":", " ", "e", "x", "i", "t", " ", "<", "e", "r", "r", "o", "r", "_", "c", "o", "d", "e", ">">>), <<>>, <<>>)

\* echo that rebuilds its text from the non-empty arguments
echo_handler_rejoined(command_tokens) ==
    LET IsWord(t) == t # <<>>
    IN  Ret(Echo(<<" ">> \o Join(SelectSeq(Tail(command_tokens), IsWord), <<" ">>)), <<>>, <<>>)

echo_handler(command_tokens) ==
    LET input == Join(command_tokens, <<" ">>)
        output == StripPrefix(input, command_tokens[1])
    IN  IF output.some THEN Ret(Echo(output.val), <<>>, <<>>)
        ELSE Ret(Err(<<"i", "n", "v", "a", "l", "i", "d", " ", "e", "c", "h", "o", " ", "c", "o", "m", "m", "a", "n", "d", ":", " ", "e", "c", "h", "o", " ", "<", "s", "t", "r", "i", "n", "g", ">">>), <<>>, <<>>)

\* type that asks the search path before the registry
type_handler_path_first(command_tokens, command_env, path, files) ==
    IF Len(command_tokens) # 2
    THEN Ret(Err(<<"i", "n", "v", "a", "l", "i", "d", " ", "t", "y", "p", "e", " ", "c", "o", "m", "m", "a", "n", "d", ":", " ", "t", "y", "p", "e", " ", "<", "c", "o", "m", "m", "a", "n", "d", ">">>), <<>>, <<>>)
    ELSE LET typed_command_name == Trim(command_tokens[2])
             found == find_system_command_path(typed_command_name, path, files)
         IN  CASE found.tag = "Some" ->
                    Ret(Type(typed_command_name \o <<" ", "i", "s", " ">> \o found.path), Looked(found), <<>>)
               [] found.tag = "None" ->
                    IF typed_command_name \in names(command_env)
                    THEN Ret(Type(typed_command_name \o <<" ", "i", "s", " ", "a", " ", "s", "h", "e", "l", "l", " ", "b", "u", "i", "l", "t", "i", "n">>),
                             Looked(found), <<>>)
                    ELSE Ret(Type(typed_command_name \o <<":", " ", "n", "o", "t", " ", "f", "o", "u", "n", "d">>), Looked(found), <<>>)
               [] found.tag = "Err" ->
                    Ret(Err(<<"f", "a", "i", "l", "e", "d", " ", "t", "o", " ", "g", "e", "t", " ", "P", "A", "T", "H", " ", "v", "a", "r", "i", "a", "b", "l", "e", " ", "t", "o", " ", "f", "i", "n", "d", " ", "c", "o", "m", "m", "a", "n", "d", "s", " ", "i", "n", " ", "s", "y", "s", "t", "e", "m", " ", "f", "o", "l", "d", "e", "r", "s">>),
                        Looked(found), <<>>)
               [] found.tag = "Panic" -> Ret(Panic, Looked(found), <<>>)

type_handler(command_tokens, command_env, path, files) ==
    IF Len(command_tokens) # 2
    THEN Ret(Err(<<"i", "n", "v", "a", "l", "i", "d", " ", "t", "y", "p", "e", " ", "c", "o", "m", "m", "a", "n", "d", ":", " ", "t", "y", "p", "e", " ", "<", "c", "o", "m", "m", "a", "n", "d", ">">>), <<>>, <<>>)
    ELSE LET typed_command_name == Trim(command_tokens[2])
         IN  IF typed_command_name \in names(command_env)
             THEN Ret(Type(typed_command_name \o <<" ", "i", "s", " ", "a", " ", "s", "h", "e", "l", "l", " ", "b", "u", "i", "l", "t", "i", "n">>), <<>>, <<>>)
             ELSE LET found == find_system_command_path(typed_command_name, path, files)
                  IN  CASE found.tag = "Some" ->
                             Ret(Type(typed_command_name \o <<" ", "i", "s", " ">> \o found.path), Looked(found), <<>>)
                        [] found.tag = "None" ->
                             Ret(Type(typed_command_name \o <<":", " ", "n", "o", "t", " ", "f", "o", "u", "n", "d">>), Looked(found), <<>>)
                        [] found.tag = "Err" ->
                             Ret(Err(<<"f", "a", "i", "l", "e", "d", " ", "t", "o", " ", "g", "e", "t", " ", "P", "A", "T", "H", " ", "v", "a", "r", "i", "a", "b", "l", "e", " ", "t", "o", " ", "f", "i", "n", "d", " ", "c", "o", "m", "m", "a", "n", "d", "s", " ", "i", "n", " ", "s", "y", "s", "t", "e", "m", " ", "f", "o", "l", "d", "e", "r", "s">>),
                                 Looked(found), <<>>)
                        [] found.tag = "Panic" -> Ret(Panic, Looked(found), <<>>)

\* the RUN_INTERNAL handler without the trim of the command name
run_handler_untrimmed(command_tokens, path, files, child) ==
    LET command_name == command_tokens[1]
        found == find_system_command_path(command_name, path, files)
    IN  CASE found.tag = "Some" ->
               LET spawn == <<[program |-> found.path, args |-> Tail(command_tokens),
                               child |-> child]>>
               IN  IF ~child.started
                   THEN Ret(Err(<<"f", "a", "i", "l", "e", "d", " ", "t", "o", " ", "e", "x", "e", "c", "u", "t", "e", " ", "p", "r", "o", "g", "r", "a", "m", ":", " ", "o", "s", " ", "e", "r", "r", "o", "r">>), Looked(found), <<>>)
                   ELSE IF child.success
                        THEN IF child.stdout.utf8
                             THEN Ret(Run(child.stdout.text), Looked(found), spawn)
                             ELSE Ret(Panic, Looked(found), spawn)
                        ELSE IF child.stderr.utf8
                             THEN Ret(Run(child.stderr.text), Looked(found), spawn)
                             ELSE Ret(Panic, Looked(found), spawn)
          [] found.tag = "None" -> Ret(Run(command_name \o <<":", " ", "n", "o", "t", " ", "f", "o", "u", "n", "d">>), Looked(found), <<>>)
          [] found.tag = "Err" ->
               Ret(Err(<<"f", "a", "i", "l", "e", "d", " ", "t", "o", " ", "g", "e", "t", " ", "P", "A", "T", "H", " ", "v", "a", "r", "i", "a", "b", "l", "e", " ", "t", "o", " ", "f", "i", "n", "d", " ", "c", "o", "m", "m", "a", "n", "d", "s", " ", "i", "n", " ", "s", "y", "s", "t", "e", "m", " ", "f", "o", "l", "d", "e", "r", "s">>),
                   Looked(found), <<>>)
          [] found.tag = "Panic" -> Ret(Panic, Looked(found), <<>>)

\* the handler registered under RUN_INTERNAL
run_handler(command_tokens, path, files, child) ==
    LET command_name == Trim(command_tokens[1])
        found == find_system_command_path(command_name, path, files)
    IN  CASE found.tag = "Some" ->
               LET spawn == <<[program |-> found.path, args |-> Tail(command_tokens), child |-> child]>>
               IN  IF ~child.started
                   THEN Ret(Err(<<"f", "a", "i", "l", "e", "d", " ", "t", "o", " ", "e", "x", "e", "c", "u", "t", "e", " ", "p", "r", "o", "g", "r", "a", "m", ":", " ", "o", "s", " ", "e", "r", "r", "o", "r">>), Looked(found), <<>>)
                   ELSE IF child.success
                        THEN IF child.stdout.utf8
                             THEN Ret(Run(child.stdout.text), Looked(found), spawn)
                             ELSE Ret(Panic, Looked(found), spawn)
                        ELSE IF child.stderr.utf8
                             THEN Ret(Run(child.stderr.text), Looked(found), spawn)
                             ELSE Ret(Panic, Looked(found), spawn)
          [] found.tag = "None" -> Ret(Run(command_name \o <<":", " ", "n", "o", "t", " ", "f", "o", "u", "n", "d">>), Looked(found), <<>>)
          [] found.tag = "Err" ->
               Ret(Err(<<"f", "a", "i", "l", "e", "d", " ", "t", "o", " ", "g", "e", "t", " ", "P", "A", "T", "H", " ", "v", "a", "r", "i", "a", "b", "l", "e", " ", "t", "o", " ", "f", "i", "n", "d", " ", "c", "o", "m", "m", "a", "n", "d", "s", " ", "i", "n", " ", "s", "y", "s", "t", "e", "m", " ", "f", "o", "l", "d", "e", "r", "s">>),
                   Looked(found), <<>>)
          [] found.tag = "Panic" -> Ret(Panic, Looked(found), <<>>)

(* ----------------------------- dispatcher ----------------------------- *)

\* the closure stored in entry i of the registry
Call(i, command_tokens, command_env, path, files, child) ==
    CASE i = 1 -> exit_handler(command_tokens)
      [] i = 2 -> echo_handler(command_tokens)
      [] i = 3 -> type_handler(command_tokens, command_env, path, files)
      [] i = 4 -> run_handler(command_tokens, path, files, child)

\* Iterator::find over the registry: the first entry of that name
Find(command_env, name) ==
    LET hits == {i \in 1..Len(command_env) : command_env[i] = name}
    IN  IF hits = {} THEN 0 ELSE CHOOSE i \in hits : \A j \in hits : i <= j

\* handle_input: the handler's return value, with the registry entry whose
\* handler ran (none on the else branch)
handle_input(input_line, command_env, path, files, child) ==
    LET command_tokens == Split(input_line, " ")
    IN  IF Len(command_tokens) > 0
        THEN LET hit == Find(command_env, command_tokens[1])
                 i == IF hit # 0 THEN hit ELSE Find(command_env, RUN_INTERNAL)
             IN  [invoked |-> <<command_env[i]>>,
                  ret |-> Call(i, command_tokens, command_env, path, files, child)]
        ELSE [invoked |-> <<>>,
              ret |-> Ret(Err(<<"c", "o", "m", "m", "a", "n", "d", " ", "n", "o", "t", " ", "s", "p", "e", "c", "i", "f", "i", "e", "d">>), <<>>, <<>>)]

\* what main's match prints for a result that does not end the process
Rendered(command) ==
    IF command.kind = "Echo" THEN Trim(command.body) \o <<"\n">>
    ELSE command.body \o <<"\n">>

(* ------------------------------- state -------------------------------- *)

VARIABLES
    pc,         \* where main is: AwaitingLine (blocked in read_line), Dispatching,
                \* Rendering, Clearing, or ended: Exited, Panicked
    input,      \* main's line buffer
    path,       \* the PATH variable of the environment
    files,      \* the directories that can be listed, with their entries
    invoked,    \* the registry entry whose handler ran for this line, if any
    result,     \* what handle_input returned for this line
    located,    \* the call of find_system_command_path made for this line, if any
    spawned,    \* the child process run for this line, if any
    displayed,  \* the last text written to standard output
    status      \* how the process ended, if it has

vars == <<pc, input, path, files, invoked, result, located, spawned, displayed, status>>

NoResult == [kind |-> "None", code |-> 0, body |-> <<>>]
Running == [how |-> "running", code |-> 0]

\* main has built the registry, printed the first prompt and waits for a line
Init ==
    /\ pc = "AwaitingLine"
    /\ input = <<>>
    /\ path \in PathValues
    /\ files \in FileSystems
    /\ invoked = <<>>
    /\ result = NoResult
    /\ located = <<>>
    /\ spawned = <<>>
    /\ displayed = <<"$", " ">>
    /\ status = Running

\* stdin.read_line(&mut input).unwrap(), a line or end of input arriving
ReadLine ==
    /\ pc = "AwaitingLine"
    /\ \E l \in Lines : input' = input \o l
    /\ pc' = "Dispatching"
    /\ UNCHANGED <<path, files, invoked, result, located, spawned, displayed, status>>

\* stdin.read_line(&mut input).unwrap(), the read failing (bytes that are no
\* UTF-8, an I/O error): unwrap panics
ReadLineFails ==
    /\ pc = "AwaitingLine"
    /\ pc' = "Panicked"
    /\ status' = [how |-> "panic", code |-> 0]
    /\ UNCHANGED <<input, path, files, invoked, result, located, spawned, displayed>>

\* handle_input(&input, &command_env), with whatever a spawned child does
HandleInput ==
    /\ pc = "Dispatching"
    /\ \E child \in Children :
         LET h == handle_input(input, init, path, files, child)
         IN  /\ invoked' = h.invoked
             /\ result' = h.ret.res
             /\ located' = h.ret.located
             /\ spawned' = h.ret.spawned
             /\ pc' = IF h.ret.res.kind = "Panic" THEN "Panicked" ELSE "Rendering"
             /\ status' = IF h.ret.res.kind = "Panic"
                          THEN [how |-> "panic", code |-> 0]
                          ELSE status
    /\ UNCHANGED <<input, path, files, displayed>>

\* Command::Exit(code) => process::exit(code)
RenderExit ==
    /\ pc = "Rendering"
    /\ result.kind = "Exit"
    /\ pc' = "Exited"
    /\ status' = [how |-> "exit", code |-> result.code]
    /\ UNCHANGED <<input, path, files, invoked, result, located, spawned, displayed>>

\* the println! arms of main's match
RenderPrint ==
    /\ pc = "Rendering"
    /\ result.kind # "Exit"
    /\ displayed' = Rendered(result)
    /\ pc' = "Clearing"
    /\ UNCHANGED <<input, path, files, invoked, result, located, spawned, status>>

\* input.clear(), then the next iteration's print_invite_symb
Clear ==
    /\ pc = "Clearing"
    /\ input' = <<>>
    /\ invoked' = <<>>
    /\ result' = NoResult
    /\ located' = <<>>
    /\ spawned' = <<>>
    /\ displayed' = <<"$", " ">>
    /\ pc' = "AwaitingLine"
    /\ UNCHANGED <<path, files, status>>

Next ==
    \/ ReadLine
    \/ ReadLineFails
    \/ HandleInput
    \/ RenderExit
    \/ RenderPrint
    \/ Clear

Spec == Init /\ [][Next]_vars

TypeOK ==
    /\ pc \in {"AwaitingLine", "Dispatching", "Rendering", "Clearing", "Exited", "Panicked"}
    /\ result.kind \in {"None", "Exit", "Echo", "Type", "Run", "Err", "Panic"}
    /\ status.how \in {"running", "exit", "panic"}
    /\ Len(invoked) <= 1
    /\ Len(spawned) <= 1

(* ------------------------------ properties ---------------------------- *)

\* a line has been dispatched: handle_input has returned for the line in input
Dispatched == result.kind # "None"

Tokens == Split(input, " ")

\* the command name of the line in input: its first token, trimmed
CommandName == Trim(Tokens[1])

Builtins == {<<"e", "x", "i", "t">>, <<"e", "c", "h", "o">>, <<"t", "y", "p", "e">>}

\* C1: for every dispatched line, a builtin command name (also alone on its
\* line) runs that builtin's handler and no child process, and any other first
\* token runs the external invoker on the full token sequence.
C1_BuiltinsNeverReachInvoker ==
    Dispatched =>
        IF CommandName \in Builtins
        THEN invoked = <<CommandName>> /\ spawned = <<>>
        ELSE /\ invoked = <<RUN_INTERNAL>>
             /\ spawned # <<>> => spawned[1].args = Tail(Tokens)

\* C2: the process ends after a dispatched line only by exit <n> yielding
\* Terminate(n), and then with status n; after any other line it goes on.
C2_EndsOnlyByExit ==
    (Dispatched /\ pc \in {"Exited", "Panicked"}) =>
        /\ result.kind = "Exit"
        /\ status = [how |-> "exit", code |-> result.code]

\* C3: a line whose command name is exit yields Terminate(code) exactly when it
\* has two tokens and the second, trimmed, parses as an i32 (code is that
\* value); otherwise it yields a Failure and the process goes on.
C3_ExitNeedsTwoTokensAndInteger ==
    (Dispatched /\ CommandName = <<"e", "x", "i", "t">>) =>
        IF Len(Tokens) = 2 /\ ParseI32(Trim(Tokens[2])).ok
        THEN result = Exit(ParseI32(Trim(Tokens[2])).val)
        ELSE result.kind = "Err" /\ status.how = "running"

\* C4: a blank line (a newline alone) yields Failure("command not specified") with no handler
\* invoked, no search-path lookup and no child process.
C4_BlankLineNotSpecified ==
    (Dispatched /\ input = <<"\n">>) =>
        /\ result = Err(<<"c", "o", "m", "m", "a", "n", "d", " ", "n", "o", "t", " ", "s", "p", "e", "c", "i", "f", "i", "e", "d">>)
        /\ invoked = <<>>
        /\ located = <<>>
        /\ spawned = <<>>

\* C5: when the command name is not in the registry and the locator's scan
\* ends with no match, the external-run path yields Run "<name>: not found",
\* name being the trimmed first token, and spawns no child.
C5_NotFoundIsRun ==
    (/\ Dispatched
     /\ CommandName \notin names(init)
     /\ located # <<>>
     /\ located[1].tag = "None") =>
        /\ invoked = <<RUN_INTERNAL>>
        /\ result = Run(CommandName \o <<":", " ", "n", "o", "t", " ", "f", "o", "u", "n", "d">>)
        /\ spawned = <<>>
        /\ pc \in {"Rendering", "Clearing"}

C5_Witness ==
    /\ pc = "Clearing"
    /\ input = <<"f", "o", "o", " ", "7", "\n">>
    /\ located # <<>>
    /\ located[1].tag = "None"
    /\ result = Run(<<"f", "o", "o", ":", " ", "n", "o", "t", " ", "f", "o", "u", "n", "d">>)
    /\ displayed = <<"f", "o", "o", ":", " ", "n", "o", "t", " ", "f", "o", "u", "n", "d", "\n">>

\* the stream the external invoker takes its body from
Captured(child) == IF child.success THEN child.stdout ELSE child.stderr

\* C6: for a program that ran and whose captured stream is text, the outcome is
\* Run with stdout on success and stderr otherwise, and what is displayed is
\* that body with trailing whitespace trimmed (one line).
C6_RunBodyDisplayedTrimmed ==
    (spawned # <<>> /\ Captured(spawned[1].child).utf8) =>
        /\ result = Run(Captured(spawned[1].child).text)
        /\ pc = "Clearing" => displayed = TrimEnd(result.body) \o <<"\n">>

\* C7: a two-token line type n, n a builtin name, yields Text "n is a shell
\* builtin" whatever PATH and the directories hold, without a locator call.
C7_TypeOfBuiltin ==
    (/\ Dispatched
     /\ Len(Tokens) = 2
     /\ Tokens[1] = <<"t", "y", "p", "e">>
     /\ Trim(Tokens[2]) \in Builtins) =>
        /\ result = Type(Trim(Tokens[2]) \o <<" ", "i", "s", " ", "a", " ", "s", "h", "e", "l", "l", " ", "b", "u", "i", "l", "t", "i", "n">>)
        /\ located = <<>>
        /\ spawned = <<>>
        /\ pc \in {"Rendering", "Clearing"}

C7_Witness ==
    /\ pc = "Clearing"
    /\ input = <<"t", "y", "p", "e", " ", "e", "c", "h", "o", "\n">>
    /\ path = [set |-> TRUE, value |-> <<"/", "b", ":", "/", "a">>]
    /\ File(<<"e", "c", "h", "o">>) \in {files[<<"/", "b">>][i] : i \in 1..Len(files[<<"/", "b">>])}
    /\ displayed = <<"e", "c", "h", "o", " ", "i", "s", " ", "a", " ", "s", "h", "e", "l", "l", " ", "b", "u", "i", "l", "t", "i", "n", "\n">>

\* C8: type __r_u_n__ never reports the sentinel as a shell builtin.
C8_SentinelNotABuiltin ==
    result # Type(RUN_INTERNAL \o <<" ", "i", "s", " ", "a", " ", "s", "h", "e", "l", "l", " ", "b", "u", "i", "l", "t", "i", "n">>)

\* whether directory d can be listed and holds a file of that name
Holds(d, name) ==
    d \in DOMAIN files /\ \E i \in 1..Len(files[d]) : files[d][i] = File(name)

\* C9: with PATH set to D1:...:Dn, a lookup of a non-empty name returns the
\* path under the earliest directory that holds a file of that exact name, and
\* None when none does.
C9_FirstMatchWins ==
    (located # <<>> /\ located[1].name # <<>> /\ path.set) =>
        LET dirs == Split(path.value, ":")
            name == located[1].name
            hits == {i \in 1..Len(dirs) : Holds(dirs[i], name)}
        IN  IF hits = {}
            THEN located[1].tag = "None"
            ELSE LET first == CHOOSE i \in hits : \A j \in hits : i <= j
                 IN  /\ located[1].tag = "Some"
                     /\ located[1].path = JoinPath(dirs[first], name)

\* C10: a line whose first token is echo yields Text, never a Failure; the body
\* is the raw line without the leading command name, the tokens re-joined with
\* single spaces being the raw line, and what is displayed keeps every run of
\* spaces between the arguments.
C10_EchoKeepsRawText ==
    (Dispatched /\ Tokens[1] = <<"e", "c", "h", "o">>) =>
        /\ result.kind = "Echo"
        /\ Join(Tokens, <<" ">>) = input
        /\ <<"e", "c", "h", "o">> \o result.body = input
        /\ pc = "Clearing" => displayed = Trim(SubSeq(input, 5, Len(input))) \o <<"\n">>

C10_Witness ==
    /\ pc = "Clearing"
    /\ input = <<"e", "c", "h", "o", " ", "a", " ", " ", "b", "\n">>
    /\ result = Echo(<<" ", "a", " ", " ", "b", "\n">>)
    /\ displayed = <<"a", " ", " ", "b", "\n">>
====
